---- MODULE Spec2Model ----
(***************************************************************************)
(* Model of the PDF -> Excel header extractor (src/main.py, with the older *)
(* synchronous src/extractor_conva.py).                                    *)
(*                                                                         *)
(* Five specifications share this module:                                  *)
(*   SpecExtract  _extract_first_compiled / _extract_first on one text     *)
(*   SpecNombre   _limpiar_nombre on one raw name                          *)
(*   SpecScan     the page loop of extract_conva_header on one document    *)
(*   SpecBatch    the batch runner: file dialog, worker threads, pubsub,   *)
(*                cancel (SpecBatchFair: the same, threads scheduled)      *)
(*   Spec         the application: the batch runner and export_excel,      *)
(*                open_excel, limpiar                                      *)
(*                                                                         *)
(* Strings are sequences of character tokens.  A label of a regular        *)
(* expression (for instance "Carrera en UPN:") is one token: the labels    *)
(* of the pattern table cannot overlap each other, so nothing is lost.     *)
(***************************************************************************)
EXTENDS Integers, Sequences, FiniteSets, TLC

VARIABLES
    \* ---- SpecExtract: one call of _extract_first_compiled(patterns, text)
    xText,      \* text
    xPats,      \* patterns
    xIdx,       \* position of the for loop in patterns (1-based)
    xRes,       \* the returned value
    xPc,        \* "loop" | "done"
    \* ---- SpecNombre: one call of _limpiar_nombre(nombre_raw)
    nRaw,       \* nombre_raw
    nIdx,       \* position of the for loop in cortes (1-based)
    nNombre,    \* the local nombre
    nRes,       \* the returned value
    nPc,        \* "start" | "loop" | "clean" | "done"
    \* ---- SpecScan: one call of extract_conva_header(pdf_path, max_pages=4)
    sLen,       \* len(pdf.pages)
    sI,         \* number of pages read so far (extract_text calls)
    sHdr,       \* the nine locals nombre_raw .. observ
    sFound,     \* found
    sPage,      \* the page read last
    sTried,     \* the fields whose extractor ran on the page read last
    sRes,       \* the returned ConvaHeader, or the exception raised
    sPc,        \* "open" | "scan" | "post" | "done" | "raised"
    \* ---- Spec: main(page), its handlers and its worker threads
    registros,  \* the result list
    cancel_flag,    \* cancel_flag["stop"]
    running_flag,   \* running_flag["running"]
    status,     \* status.value
    progress_visible,   \* progress.visible
    btn_cancel_disabled,    \* btn_cancel.disabled
    enabled,    \* set_enabled: btn_pick, btn_export, btn_open, btn_clear not disabled
    pubsub,     \* messages sent with page.pubsub.send_all, not yet handled
    dialogs,    \* pick_pdfs_with_tk calls blocked in askopenfilenames
    workers,    \* the worker threads
    handler,    \* the export_excel or limpiar call that is part way through
    quota,      \* how many more files the user selects in this session
    excel       \* the file resultado_conva.xlsx: whether it exists, and its rows

xVars == <<xText, xPats, xIdx, xRes, xPc>>
nVars == <<nRaw, nIdx, nNombre, nRes, nPc>>
sVars == <<sLen, sI, sHdr, sFound, sPage, sTried, sRes, sPc>>
appVars ==
    <<registros, cancel_flag, running_flag, status, progress_visible,
      btn_cancel_disabled, enabled, pubsub, dialogs, workers, handler, quota, excel>>
vars == <<xVars, nVars, sVars, appVars>>

(***************************************************************************)
(* Values.  Python's None is a one-token sequence that no text contains;   *)
(* the empty string is the empty sequence.                                 *)
(***************************************************************************)
None == <<"None">>
EmptyStr == <<>>

\* Python truthiness of an Optional[str]: None and "" are falsy.
Truthy(v) == v /= None /\ v /= EmptyStr

SP == " "
NL == "\n"
IsSpace(c) == c \in {SP, NL}

\* All sequences over S of length 0..n.
SeqsUpTo(S, n) == UNION {[1..k -> S] : k \in 0..n}

(***************************************************************************)
(* _clean_spaces: re.sub(r"\s+", " ", s).strip()                           *)
(***************************************************************************)
RECURSIVE CollapseSpaces(_)
CollapseSpaces(s) ==
    IF s = <<>> THEN <<>>
    ELSE IF IsSpace(Head(s))
         THEN IF Len(s) > 1 /\ IsSpace(s[2])
              THEN CollapseSpaces(Tail(s))
              ELSE <<SP>> \o CollapseSpaces(Tail(s))
         ELSE <<Head(s)>> \o CollapseSpaces(Tail(s))

RECURSIVE LStrip(_)
LStrip(s) == IF s /= <<>> /\ IsSpace(Head(s)) THEN LStrip(Tail(s)) ELSE s

RECURSIVE RStrip(_)
RStrip(s) ==
    IF s /= <<>> /\ IsSpace(s[Len(s)]) THEN RStrip(SubSeq(s, 1, Len(s) - 1)) ELSE s

clean_spaces(s) == RStrip(LStrip(CollapseSpaces(s)))

(***************************************************************************)
(* The pattern table.  Every pattern of the table has the shape            *)
(*     <label> \s* ( <class>+ )                                            *)
(* with one mandatory capture group.  A pattern is [label, cls]: label is  *)
(* the token of its label, cls the class of its capture: "notnl" is [^\n], *)
(* "digit" is [0-9].  Labels "A" and "B" are the first and the second      *)
(* label of a field ("Carrera en UPN:", "Carrera UPN:").                   *)
(***************************************************************************)
Pat(l, c) == [label |-> l, cls |-> c]

PATRONES_CAMPUS == <<Pat("A", "notnl")>>
PATRONES_CARRERA == <<Pat("A", "notnl"), Pat("B", "notnl")>>
PATRONES_CODIGO == <<Pat("A", "digit"), Pat("B", "digit")>>
PATRONES_VERSION == <<Pat("A", "digit"), Pat("B", "notnl")>>

PatternLists == {PATRONES_CAMPUS, PATRONES_CARRERA, PATRONES_CODIGO, PATRONES_VERSION}

TextChars == {"A", "B", SP, NL, "x", "7"}

\* Longest text given to the extractor.
MaxTextLen == 4

InClass(c, cls) == IF cls = "notnl" THEN c /= NL ELSE c = "7"

\* Number of consecutive characters of text from position p on that satisfy
\* the test (p may be Len(text) + 1).
RECURSIVE RunLen(_, _, _)
RunLen(text, p, cls) ==
    IF p > Len(text) THEN 0
    ELSE IF (IF cls = "space" THEN IsSpace(text[p]) ELSE InClass(text[p], cls))
         THEN 1 + RunLen(text, p + 1, cls)
         ELSE 0

(***************************************************************************)
(* re: the match of  label \s* (cls+)  that starts at position p, as the   *)
(* backtracking matcher finds it: \s* is greedy and gives characters back  *)
(* one by one until cls+ matches at least one character; cls+ is greedy.   *)
(* The result is the capture, or None when there is no match at p.         *)
(***************************************************************************)
MatchAt(pat, text, p) ==
    IF text[p] /= pat.label THEN None
    ELSE LET ws == RunLen(text, p + 1, "space")
             ks == {k \in 0..ws : RunLen(text, p + 1 + k, pat.cls) > 0}
         IN  IF ks = {} THEN None
             ELSE LET k == CHOOSE j \in ks : \A h \in ks : h <= j
                      from == p + 1 + k
                  IN  SubSeq(text, from, from + RunLen(text, from, pat.cls) - 1)

\* pat.search(text): the match at the leftmost position that has one.
Search(pat, text) ==
    LET ps == {p \in 1..Len(text) : MatchAt(pat, text, p) /= None}
    IN  IF ps = {} THEN None
        ELSE MatchAt(pat, text, CHOOSE p \in ps : \A q \in ps : p <= q)

(***************************************************************************)
(* _extract_first_compiled, one iteration of its for loop per step.        *)
(* m.group(1) is never None for a pattern of the table (the group is       *)
(* mandatory), so "val is not None" is "m matched".                        *)
(***************************************************************************)
XInit ==
    /\ xText \in SeqsUpTo(TextChars, MaxTextLen)
    /\ xPats \in PatternLists
    /\ xIdx = 1
    /\ xRes = None
    /\ xPc = "loop"

XTry ==
    /\ xPc = "loop"
    /\ xIdx <= Len(xPats)
    /\ LET val == Search(xPats[xIdx], xText)
       IN  IF val /= None
           THEN /\ xRes' = clean_spaces(val)
                /\ xPc' = "done"
                /\ UNCHANGED xIdx
           ELSE /\ xIdx' = xIdx + 1
                /\ UNCHANGED <<xRes, xPc>>
    /\ UNCHANGED <<xText, xPats>>

XReturnNone ==
    /\ xPc = "loop"
    /\ xIdx > Len(xPats)
    /\ xRes' = None
    /\ xPc' = "done"
    /\ UNCHANGED <<xText, xPats, xIdx>>

XIdle ==
    /\ xText = <<>>
    /\ xPats = <<>>
    /\ xIdx = 1
    /\ xRes = None
    /\ xPc = "done"

NIdle ==
    /\ nRaw = None
    /\ nIdx = 1
    /\ nNombre = None
    /\ nRes = None
    /\ nPc = "done"

(***************************************************************************)
(* _limpiar_nombre.  A sub-label is a space followed by one label token:   *)
(*   "Ie" ID Estudiante:   "IE" ID ESTUDIANTE:                             *)
(*   "Co" Código:          "CO" CODIGO:  (no accent)                       *)
(* "x" and "X" are a lower-case and an upper-case letter.  str.lower()     *)
(* maps "Ie" and "IE" to "ie", "Co" to "có", "CO" to "co", "X" to "x".     *)
(***************************************************************************)
NameChars == {"x", "X", SP, "Ie", "IE", "Co", "CO"}

\* Longest raw name.
MaxNameLen == 5

LowerChar(c) ==
    CASE c = "X" -> "x"
      [] c \in {"Ie", "IE"} -> "ie"
      [] c = "Co" -> "có"
      [] c = "CO" -> "co"
      [] OTHER -> c

lower(s) == [k \in 1..Len(s) |-> LowerChar(s[k])]

cortes == << <<SP, "Ie">>, <<SP, "Co">>, <<SP, "CO">>, <<SP, "IE">> >>

\* The positions (1-based) at which needle occurs in s.
Occurrences(s, needle) ==
    {p \in 1..(Len(s) - Len(needle) + 1) : SubSeq(s, p, p + Len(needle) - 1) = needle}

\* str.find: the lowest position (1-based), 0 when there is none (Python: -1).
find(s, needle) ==
    IF Occurrences(s, needle) = {} THEN 0
    ELSE CHOOSE p \in Occurrences(s, needle) : \A q \in Occurrences(s, needle) : p <= q

\* The raw name is None or the capture of PATRONES_NOMBRE, which
\* _extract_first_compiled has already whitespace-normalized.
RawNames ==
    {None} \cup {s \in SeqsUpTo(NameChars, MaxNameLen) : clean_spaces(s) = s}

NInit ==
    /\ nRaw \in RawNames
    /\ nIdx = 1
    /\ nNombre = None
    /\ nRes = None
    /\ nPc = "start"

\* if not nombre_raw: return None;  nombre = nombre_raw; low = nombre.lower()
NStart ==
    /\ nPc = "start"
    /\ IF ~Truthy(nRaw)
       THEN /\ nRes' = None
            /\ nPc' = "done"
            /\ UNCHANGED nNombre
       ELSE /\ nNombre' = nRaw
            /\ nPc' = "loop"
            /\ UNCHANGED nRes
    /\ UNCHANGED <<nRaw, nIdx>>

\* One iteration of "for c in cortes": cut at c and break, or go on.
NCorte ==
    /\ nPc = "loop"
    /\ nIdx <= Len(cortes)
    /\ LET idx == find(lower(nRaw), lower(cortes[nIdx]))
       IN  IF idx /= 0
           THEN /\ nNombre' = SubSeq(nNombre, 1, idx - 1)
                /\ nPc' = "clean"
                /\ UNCHANGED nIdx
           ELSE /\ nIdx' = nIdx + 1
                /\ UNCHANGED <<nNombre, nPc>>
    /\ UNCHANGED <<nRaw, nRes>>

\* The loop ran out of cortes.
NNoCorte ==
    /\ nPc = "loop"
    /\ nIdx > Len(cortes)
    /\ nPc' = "clean"
    /\ UNCHANGED <<nRaw, nIdx, nNombre, nRes>>

\* return _clean_spaces(nombre)
NReturn ==
    /\ nPc = "clean"
    /\ nRes' = clean_spaces(nNombre)
    /\ nPc' = "done"
    /\ UNCHANGED <<nRaw, nIdx, nNombre>>

(***************************************************************************)
(* extract_conva_header.  A page's text is abstracted to what each field's *)
(* extractor returns on it: None, "" (a capture of [^\n]+ that is all      *)
(* whitespace, see SpecExtract) or a value; Val(k) is the value found on   *)
(* page k, so two pages never agree on a value.  A blank page is one whose *)
(* text is empty or whitespace: no extractor matches on it.                *)
(***************************************************************************)
FieldSeq ==
    <<"nombre", "codigo", "carrera", "campus", "plan", "fecha", "version", "total",
      "observ">>
Fields == {FieldSeq[k] : k \in 1..Len(FieldSeq)}

\* The fields whose last pattern captures ([^\n]+): their value can be "".
CanBeEmpty == {"nombre", "carrera", "campus", "version"}

max_pages == 4
need_min == 7

\* Most pages of a document.
MaxDocPages == 5

Val(k) == <<"v", ToString(k)>>

NoFields == [f \in Fields |-> None]

\* What a call of extract_conva_header gives: a ConvaHeader, or an exception.
Returned(h) == [raised |-> FALSE, error |-> "", header |-> h]
Raised(e) == [raised |-> TRUE, error |-> e, header |-> NoFields]
NoResult == Returned(NoFields)
BlankPage == [blank |-> TRUE, m |-> NoFields]
TextPage(k, present, empty) ==
    [blank |-> FALSE,
     m |-> [f \in Fields |->
              IF f \in empty THEN EmptyStr ELSE IF f \in present THEN Val(k) ELSE None]]

\* The field sets a page may hold: the first fields or the last fields of the
\* header, in steps of two, and none.
FieldRuns ==
    {{FieldSeq[k] : k \in 1..b} : b \in {0, 2, 4, 6, 7, 9}}
    \cup {{FieldSeq[k] : k \in a..Len(FieldSeq)} : a \in {3, 4, 6, 8}}
EmptySets == {{}, {"campus"}, {"nombre", "version"}}

Pages(k) ==
    {BlankPage} \cup {TextPage(k, p, e) : p \in FieldRuns, e \in EmptySets}

\* A scanner that attempts every field on every page.
Unresolved_always(v) == TRUE

\* "if <field> is None": the field is attempted on this page.
Unresolved(v) == v = None

\* A scanner that needs one field more than need_min to stop.
EnoughFound_strict(found) == found > need_min

\* "if found >= need_min: break"
EnoughFound(found) == found >= need_min

\* The body of the page loop for a page that is not blank, on the locals
\* st = [hdr, found]: every unresolved field takes what its extractor returns,
\* and found counts the truthy ones.
ScanPage(st, page) ==
    [hdr |-> [f \in Fields |-> IF Unresolved(st.hdr[f]) THEN page.m[f] ELSE st.hdr[f]],
     found |-> st.found
               + Cardinality({f \in Fields : Unresolved(st.hdr[f]) /\ Truthy(page.m[f])})]

\* carrera_limpia and _limpiar_nombre map a falsy value to None; a value
\* Val(k) stands for a capture with no embedded sub-label and no "Modalidad:"
\* clause, which both return unchanged (SpecNombre has the other names).
PostProcess(hdr) ==
    [f \in Fields |->
        IF f \in {"nombre", "carrera"} /\ ~Truthy(hdr[f]) THEN None ELSE hdr[f]]

SInit ==
    /\ sLen = 0
    /\ sI = 0
    /\ sHdr = NoFields
    /\ sFound = 0
    /\ sPage = BlankPage
    /\ sTried = {}
    /\ sRes = NoResult
    /\ sPc = "open"

SIdle ==
    /\ sLen = 0
    /\ sI = 0
    /\ sHdr = NoFields
    /\ sFound = 0
    /\ sPage = BlankPage
    /\ sTried = {}
    /\ sRes = NoResult
    /\ sPc = "done"

\* pdfplumber.open succeeds and the document is not encrypted.
SOpen ==
    /\ sPc = "open"
    /\ \E len \in 0..MaxDocPages : sLen' = len
    /\ sPc' = "scan"
    /\ UNCHANGED <<sI, sHdr, sFound, sPage, sTried, sRes>>

\* pdfplumber.open raises, or is_encrypted: ValueError.
SOpenRaises ==
    /\ sPc = "open"
    /\ \E e \in {"open failed", "PDF encriptado/no legible"} : sRes' = Raised(e)
    /\ sPc' = "raised"
    /\ UNCHANGED <<sLen, sI, sHdr, sFound, sPage, sTried>>

\* n = min(len(pdf.pages), max_pages)
PageLimit(len) == IF len < max_pages THEN len ELSE max_pages

\* One iteration of "for i in range(n)".
SReadPage ==
    /\ sPc = "scan"
    /\ sI < PageLimit(sLen)
    /\ \E page \in Pages(sI + 1) :
          /\ sPage' = page
          /\ sI' = sI + 1
          /\ IF page.blank
             THEN /\ sTried' = {}
                  /\ UNCHANGED <<sHdr, sFound, sPc>>
             ELSE LET st == ScanPage([hdr |-> sHdr, found |-> sFound], page)
                  IN  /\ sTried' = {f \in Fields : Unresolved(sHdr[f])}
                      /\ sHdr' = st.hdr
                      /\ sFound' = st.found
                      /\ sPc' = IF EnoughFound(st.found) THEN "post" ELSE "scan"
    /\ UNCHANGED <<sLen, sRes>>

\* range(n) is exhausted.
SPagesDone ==
    /\ sPc = "scan"
    /\ sI >= PageLimit(sLen)
    /\ sPc' = "post"
    /\ UNCHANGED <<sLen, sI, sHdr, sFound, sPage, sTried, sRes>>

\* return ConvaHeader(...)
SReturn ==
    /\ sPc = "post"
    /\ sRes' = Returned(PostProcess(sHdr))
    /\ sPc' = "done"
    /\ UNCHANGED <<sLen, sI, sHdr, sFound, sPage, sTried>>

(***************************************************************************)
(* The application.  Documents on disk: a document opens or not, is        *)
(* encrypted or not, and has pages.                                        *)
(***************************************************************************)
Doc(o, e, ps) == [opens |-> o, encrypted |-> e, pages |-> ps]

DocUnopenable == Doc(FALSE, FALSE, <<>>)
DocEncrypted == Doc(TRUE, TRUE, <<>>)
DocBlank == Doc(TRUE, FALSE, <<BlankPage, BlankPage>>)
DocFull == Doc(TRUE, FALSE, <<TextPage(1, Fields, {}), TextPage(2, Fields, {})>>)
DocPartial ==
    Doc(TRUE, FALSE,
        <<BlankPage,
          TextPage(2, {"nombre", "codigo", "carrera", "campus"}, {"campus"}),
          TextPage(3, {"campus", "plan", "fecha"}, {})>>)

\* The folder of PDF files, in the order of the file dialog: a full report,
\* a file that cannot be opened, a scan without text, a partial report, an
\* encrypted file, and full reports from there on.
Document(path) ==
    CASE path = 2 -> DocUnopenable
      [] path = 3 -> DocBlank
      [] path = 4 -> DocPartial
      [] path = 5 -> DocEncrypted
      [] OTHER -> DocFull

\* Most files selected in one session: of the batch runner on its own
\* (SpecBatch), and of the whole application (Spec).
MaxFiles == 6
MaxSession == 3

\* The worker threads of one session.  A thread runs worker() once: there
\* are as many batches in a session as threads.
Threads == {"t1", "t2"}

\* What askopenfilenames can return besides nothing: the first b files of
\* the folder, for b up to n.
Selections(n) == {[k \in 1..b |-> k] : b \in 1..n}

\* os.path.basename
basename(path) == <<"pdf", ToString(path)>>

\* The page loop of extract_conva_header from page i + 1 on.
RECURSIVE ScanFrom(_, _, _, _)
ScanFrom(pages, i, n, st) ==
    IF i >= n THEN st
    ELSE IF pages[i + 1].blank THEN ScanFrom(pages, i + 1, n, st)
    ELSE LET st2 == ScanPage(st, pages[i + 1])
         IN  IF EnoughFound(st2.found) THEN st2 ELSE ScanFrom(pages, i + 1, n, st2)

extract_conva_header(pdf_path) ==
    LET doc == Document(pdf_path)
    IN  IF ~doc.opens THEN Raised("No such file or not a PDF")
        ELSE IF doc.encrypted THEN Raised("PDF encriptado/no legible")
        ELSE Returned(PostProcess(
                 ScanFrom(doc.pages, 0, PageLimit(Len(doc.pages)),
                          [hdr |-> NoFields, found |-> 0]).hdr))

\* A row of the result list: the nine data columns and Nombre_PDF.
\* "Observaciones" is the column of the field "observ".
header_to_row(h, nombre_pdf) == [cols |-> h, Nombre_PDF |-> nombre_pdf]

\* An except branch that drops the error description.
error_row_blank(ex, current_name) == [cols |-> NoFields, Nombre_PDF |-> current_name]

\* The row of the except branch of the worker.
error_row(ex, current_name) ==
    [cols |-> [NoFields EXCEPT !["observ"] = <<"ERROR: ", ex>>],
     Nombre_PDF |-> current_name]

NoRow == [cols |-> NoFields, Nombre_PDF |-> <<>>]

\* A list that takes the new row at its head.
append_front(list, row) == <<row>> \o list

\* registros.append(row)
append(list, row) == Append(list, row)

\* A worker that never looks at the flag.
StopRequested_never(flag) == FALSE

\* "if cancel_flag["stop"]: break"
StopRequested(flag) == flag

\* An export that takes every list as holding data.
NoData_never(rows) == FALSE

\* "if not registros" of export_excel
NoData(rows) == rows = <<>>

\* A thread running worker().  pc is "loop" (at the top of an iteration),
\* "append" (file i extracted, its row not yet appended) or "final" (after
\* the loop).  The last four fields are history: the rows this thread has
\* appended, whether it left the loop by break, how many rows it had
\* appended when cancel was first requested during its run (-1: never), and
\* whether a later start_processing has reset the flag since.
NewWorker(paths) ==
    [pc |-> "loop", paths |-> paths, i |-> 1, ok |-> 0, errores |-> 0, row |-> NoRow,
     appended |-> <<>>, broke |-> FALSE, cancelAt |-> -1, reset |-> FALSE]

\* A thread not started yet, and a thread that has ended.
NoWorker ==
    [pc |-> "none", paths |-> <<>>, i |-> 1, ok |-> 0, errores |-> 0, row |-> NoRow,
     appended |-> <<>>, broke |-> FALSE, cancelAt |-> -1, reset |-> FALSE]

EndedWorker == [NoWorker EXCEPT !.pc = "ended"]

Unstarted == {w \in Threads : workers[w].pc = "none"}

Live == {w \in Threads : workers[w].pc \in {"loop", "append", "final"}}

\* A worker whose every message is a progress message.
Msg_progress(t, st) == [type |-> "progress", status |-> st]

Msg(t, st) == [type |-> t, status |-> st]

NoHandler == [pc |-> "idle", df |-> <<>>]

AppInit(files) ==
    /\ quota = files
    /\ registros = <<>>
    /\ cancel_flag = FALSE
    /\ running_flag = FALSE
    /\ status = ""
    /\ progress_visible = FALSE
    /\ btn_cancel_disabled = TRUE
    /\ enabled = TRUE
    /\ pubsub = <<>>
    /\ dialogs = 0
    /\ workers = [w \in Threads |-> NoWorker]
    /\ handler = NoHandler
    /\ excel = [exists |-> FALSE, rows |-> 0]

\* pick_pdfs_with_tk up to the file dialog.
PickClick ==
    /\ enabled
    /\ IF running_flag
       THEN /\ status' = "Ya hay un proceso en ejecución."
            /\ UNCHANGED dialogs
       ELSE /\ dialogs < Cardinality(Unstarted)
            /\ dialogs' = dialogs + 1
            /\ UNCHANGED status
    /\ UNCHANGED <<registros, cancel_flag, running_flag, progress_visible,
                   btn_cancel_disabled, enabled, pubsub, workers, handler, quota, excel>>

\* The dialog is closed without a selection.
PickNothing ==
    /\ dialogs > 0
    /\ dialogs' = dialogs - 1
    /\ status' = "No se seleccionaron archivos."
    /\ UNCHANGED <<registros, cancel_flag, running_flag, progress_visible,
                   btn_cancel_disabled, enabled, pubsub, workers, handler, quota, excel>>

\* The dialog returns paths: start_processing(list(paths)), to the start of
\* the worker thread.
start_processing ==
    /\ dialogs > 0
    /\ Unstarted /= {}
    /\ \E paths \in Selections(quota) :
          LET t == CHOOSE w \in Unstarted : w = "t1" \/ "t1" \notin Unstarted
          IN  /\ workers' = [w \in Threads |->
                               IF w = t THEN NewWorker(paths)
                               ELSE IF workers[w].cancelAt >= 0
                                    THEN [workers[w] EXCEPT !.reset = TRUE]
                                    ELSE workers[w]]
              /\ quota' = quota - Len(paths)
    /\ dialogs' = dialogs - 1
    /\ cancel_flag' = FALSE
    /\ running_flag' = TRUE
    /\ status' = "Procesando PDF(s)..."
    /\ progress_visible' = TRUE
    /\ btn_cancel_disabled' = FALSE
    /\ enabled' = FALSE
    /\ UNCHANGED <<registros, pubsub, handler, excel>>

\* The top of one iteration of the worker's for loop, to the end of its
\* try / except: the cancel check, then the extraction of file i.
WorkerFile(w) ==
    /\ workers[w].pc = "loop"
    /\ LET me == workers[w]
           pdf_path == me.paths[me.i]
           current_name == basename(pdf_path)
           h == extract_conva_header(pdf_path)
       IN  workers' = [workers EXCEPT ![w] =
               IF StopRequested(cancel_flag)
               THEN [me EXCEPT !.pc = "final", !.broke = TRUE]
               ELSE IF h.raised
                    THEN [me EXCEPT !.pc = "append",
                                    !.errores = @ + 1,
                                    !.row = error_row(h.error, current_name)]
                    ELSE [me EXCEPT !.pc = "append",
                                    !.ok = @ + 1,
                                    !.row = header_to_row(h.header, current_name)]]
    /\ UNCHANGED <<registros, cancel_flag, running_flag, status, progress_visible,
                   btn_cancel_disabled, enabled, pubsub, dialogs, handler, quota, excel>>

\* "if i % 10 == 0 or i == total_files"
ReportsProgress(i, total_files) == i % 10 = 0 \/ i = total_files

\* with lock: registros.append(row); then the progress message, if due.
WorkerAppend(w) ==
    /\ workers[w].pc = "append"
    /\ LET me == workers[w]
           total_files == Len(me.paths)
       IN  /\ registros' = append(registros, me.row)
           /\ pubsub' = IF ReportsProgress(me.i, total_files)
                        THEN Append(pubsub, Msg("progress", "Procesando..."))
                        ELSE pubsub
           /\ workers' = [workers EXCEPT ![w] =
                 [me EXCEPT !.appended = Append(@, me.row),
                            !.row = NoRow,
                            !.i = @ + 1,
                            !.pc = IF me.i = total_files THEN "final" ELSE "loop"]]
    /\ UNCHANGED <<cancel_flag, running_flag, status, progress_visible,
                   btn_cancel_disabled, enabled, dialogs, handler, quota, excel>>

\* The same, with send_all raising on the progress message: the outer
\* except sends the "error" message and the thread ends.
WorkerAppendCritical(w) ==
    /\ workers[w].pc = "append"
    /\ ReportsProgress(workers[w].i, Len(workers[w].paths))
    /\ registros' = append(registros, workers[w].row)
    /\ pubsub' = Append(pubsub, Msg("error", "Error crítico"))
    /\ workers' = [workers EXCEPT ![w] = EndedWorker]
    /\ UNCHANGED <<cancel_flag, running_flag, status, progress_visible,
                   btn_cancel_disabled, enabled, dialogs, handler, quota, excel>>

\* "if cancel_flag["stop"]" after the loop: the final status.
FinalStatus(flag) == IF flag THEN "Cancelado" ELSE "Listo"

\* After the loop: the "done" message with the final status; the thread ends.
WorkerFinal(w) ==
    /\ workers[w].pc = "final"
    /\ pubsub' = Append(pubsub, Msg("done", FinalStatus(cancel_flag)))
    /\ workers' = [workers EXCEPT ![w] = EndedWorker]
    /\ UNCHANGED <<registros, cancel_flag, running_flag, status, progress_visible,
                   btn_cancel_disabled, enabled, dialogs, handler, quota, excel>>

\* on_pubsub_message on the oldest message.
on_pubsub_message ==
    /\ pubsub /= <<>>
    /\ LET msg == Head(pubsub)
       IN  /\ status' = msg.status
           /\ IF msg.type = "progress"
              THEN /\ progress_visible' = TRUE
                   /\ UNCHANGED <<running_flag, btn_cancel_disabled, enabled>>
              ELSE /\ running_flag' = FALSE
                   /\ progress_visible' = FALSE
                   /\ btn_cancel_disabled' = TRUE
                   /\ enabled' = TRUE
    /\ pubsub' = Tail(pubsub)
    /\ UNCHANGED <<registros, cancel_flag, dialogs, workers, handler, quota, excel>>

\* export_excel inside "with lock": the no-data return, or df.
ExportRead ==
    /\ enabled
    /\ handler.pc = "idle"
    /\ IF NoData(registros)
       THEN /\ status' = "No hay datos para exportar."
            /\ UNCHANGED handler
       ELSE /\ handler' = [pc |-> "export", df |-> registros]
            /\ UNCHANGED status
    /\ UNCHANGED <<registros, cancel_flag, running_flag, progress_visible,
                   btn_cancel_disabled, enabled, pubsub, dialogs, workers, quota, excel>>

\* export_excel after the lock: df.to_excel(excel_path).
ExportWrite ==
    /\ handler.pc = "export"
    /\ excel' = [exists |-> TRUE, rows |-> Len(handler.df)]
    /\ handler' = NoHandler
    /\ status' = "Excel exportado"
    /\ UNCHANGED <<registros, cancel_flag, running_flag, progress_visible,
                   btn_cancel_disabled, enabled, pubsub, dialogs, workers, quota>>

open_excel ==
    /\ enabled
    /\ status' = IF excel.exists THEN "Abierto" ELSE "No se pudo abrir el Excel"
    /\ UNCHANGED <<registros, cancel_flag, running_flag, progress_visible,
                   btn_cancel_disabled, enabled, pubsub, dialogs, workers, handler,
                   quota, excel>>

\* limpiar: the check of running_flag.
LimpiarCheck ==
    /\ enabled
    /\ handler.pc = "idle"
    /\ IF running_flag
       THEN /\ status' = "No puedes limpiar mientras se procesa. Cancela primero."
            /\ UNCHANGED handler
       ELSE /\ handler' = [pc |-> "limpiar", df |-> <<>>]
            /\ UNCHANGED status
    /\ UNCHANGED <<registros, cancel_flag, running_flag, progress_visible,
                   btn_cancel_disabled, enabled, pubsub, dialogs, workers, quota, excel>>

\* limpiar: with lock: registros.clear(), and the rest.
LimpiarClear ==
    /\ handler.pc = "limpiar"
    /\ registros' = <<>>
    /\ progress_visible' = FALSE
    /\ status' = "Limpio"
    /\ handler' = NoHandler
    /\ UNCHANGED <<cancel_flag, running_flag, btn_cancel_disabled, enabled, pubsub,
                   dialogs, workers, quota, excel>>

cancel ==
    /\ ~btn_cancel_disabled
    /\ cancel_flag' = TRUE
    /\ btn_cancel_disabled' = TRUE
    /\ status' = "Cancelando... (terminará el PDF actual)"
    /\ workers' = [w \in Threads |->
                     IF workers[w].pc \in {"loop", "append"} /\ workers[w].cancelAt = -1
                     THEN [workers[w] EXCEPT !.cancelAt = Len(workers[w].appended)]
                     ELSE workers[w]]
    /\ UNCHANGED <<registros, running_flag, progress_visible, enabled, pubsub, dialogs,
                   handler, quota, excel>>

AppIdle ==
    /\ quota = 0
    /\ registros = <<>>
    /\ cancel_flag = FALSE
    /\ running_flag = FALSE
    /\ status = ""
    /\ progress_visible = FALSE
    /\ btn_cancel_disabled = TRUE
    /\ enabled = FALSE
    /\ pubsub = <<>>
    /\ dialogs = 0
    /\ workers = [w \in Threads |-> NoWorker]
    /\ handler = NoHandler
    /\ excel = [exists |-> FALSE, rows |-> 0]

Init == AppInit(MaxSession) /\ XIdle /\ NIdle /\ SIdle
Next ==
    \/ PickClick /\ UNCHANGED <<xVars, nVars, sVars>>
    \/ PickNothing /\ UNCHANGED <<xVars, nVars, sVars>>
    \/ start_processing /\ UNCHANGED <<xVars, nVars, sVars>>
    \/ (\E w \in Threads : WorkerFile(w)) /\ UNCHANGED <<xVars, nVars, sVars>>
    \/ (\E w \in Threads : WorkerAppend(w)) /\ UNCHANGED <<xVars, nVars, sVars>>
    \/ (\E w \in Threads : WorkerAppendCritical(w)) /\ UNCHANGED <<xVars, nVars, sVars>>
    \/ (\E w \in Threads : WorkerFinal(w)) /\ UNCHANGED <<xVars, nVars, sVars>>
    \/ on_pubsub_message /\ UNCHANGED <<xVars, nVars, sVars>>
    \/ ExportRead /\ UNCHANGED <<xVars, nVars, sVars>>
    \/ ExportWrite /\ UNCHANGED <<xVars, nVars, sVars>>
    \/ open_excel /\ UNCHANGED <<xVars, nVars, sVars>>
    \/ LimpiarCheck /\ UNCHANGED <<xVars, nVars, sVars>>
    \/ LimpiarClear /\ UNCHANGED <<xVars, nVars, sVars>>
    \/ cancel /\ UNCHANGED <<xVars, nVars, sVars>>
Spec == Init /\ [][Next]_vars

\* The batch runner on its own: the handlers that start, run, report and
\* cancel a batch.  export_excel, open_excel and limpiar write none of the
\* variables these read, except that limpiar empties registros.
InitBatch == AppInit(MaxFiles) /\ XIdle /\ NIdle /\ SIdle
NextBatch ==
    \/ PickClick /\ UNCHANGED <<xVars, nVars, sVars>>
    \/ PickNothing /\ UNCHANGED <<xVars, nVars, sVars>>
    \/ start_processing /\ UNCHANGED <<xVars, nVars, sVars>>
    \/ (\E w \in Threads : WorkerFile(w)) /\ UNCHANGED <<xVars, nVars, sVars>>
    \/ (\E w \in Threads : WorkerAppend(w)) /\ UNCHANGED <<xVars, nVars, sVars>>
    \/ (\E w \in Threads : WorkerAppendCritical(w)) /\ UNCHANGED <<xVars, nVars, sVars>>
    \/ (\E w \in Threads : WorkerFinal(w)) /\ UNCHANGED <<xVars, nVars, sVars>>
    \/ on_pubsub_message /\ UNCHANGED <<xVars, nVars, sVars>>
    \/ cancel /\ UNCHANGED <<xVars, nVars, sVars>>
SpecBatch == InitBatch /\ [][NextBatch]_vars

\* The batch runner with its threads scheduled: a worker thread that can
\* take its next step takes it (every extraction returns or raises, the
\* lock is always released), and pubsub delivers every message.
WorkerStep(w) ==
    (WorkerFile(w) \/ WorkerAppend(w) \/ WorkerAppendCritical(w) \/ WorkerFinal(w))
        /\ UNCHANGED <<xVars, nVars, sVars>>

Delivery == on_pubsub_message /\ UNCHANGED <<xVars, nVars, sVars>>

\* It is checked on sessions of MaxSession files.
InitBatchFair == AppInit(MaxSession) /\ XIdle /\ NIdle /\ SIdle

SpecBatchFair ==
    /\ InitBatchFair
    /\ [][NextBatch]_vars
    /\ \A w \in Threads : WF_vars(WorkerStep(w))
    /\ WF_vars(Delivery)

(***************************************************************************)
(* The specifications of the three functions.                              *)
(***************************************************************************)
InitExtract == XInit /\ NIdle /\ SIdle /\ AppIdle
NextExtract ==
    \/ XTry /\ UNCHANGED <<nVars, sVars, appVars>>
    \/ XReturnNone /\ UNCHANGED <<nVars, sVars, appVars>>
SpecExtract == InitExtract /\ [][NextExtract]_vars

InitNombre == NInit /\ XIdle /\ SIdle /\ AppIdle
NextNombre ==
    \/ NStart /\ UNCHANGED <<xVars, sVars, appVars>>
    \/ NCorte /\ UNCHANGED <<xVars, sVars, appVars>>
    \/ NNoCorte /\ UNCHANGED <<xVars, sVars, appVars>>
    \/ NReturn /\ UNCHANGED <<xVars, sVars, appVars>>
SpecNombre == InitNombre /\ [][NextNombre]_vars

InitScan == SInit /\ XIdle /\ NIdle /\ AppIdle
NextScan ==
    \/ SOpen /\ UNCHANGED <<xVars, nVars, appVars>>
    \/ SOpenRaises /\ UNCHANGED <<xVars, nVars, appVars>>
    \/ SReadPage /\ UNCHANGED <<xVars, nVars, appVars>>
    \/ SPagesDone /\ UNCHANGED <<xVars, nVars, appVars>>
    \/ SReturn /\ UNCHANGED <<xVars, nVars, appVars>>
SpecScan == InitScan /\ [][NextScan]_vars

(***************************************************************************)
(* C1.  A batch run over files f1..fn that is not cancelled and hits no    *)
(* critical failure appends exactly one row per file, in input order, a    *)
(* failing file giving its error row at its own position; no step of a run *)
(* reorders, removes or deduplicates rows already in the list.             *)
(***************************************************************************)
Raises(path) == extract_conva_header(path).raised

IsErrorRow(row) ==
    /\ row.cols["observ"] /= None
    /\ Len(row.cols["observ"]) = 2
    /\ row.cols["observ"][1] = "ERROR: "

RECURSIVE IsSubseq(_, _)
IsSubseq(a, b) ==
    IF a = <<>> THEN TRUE
    ELSE IF b = <<>> THEN FALSE
    ELSE IF Head(a) = Head(b) THEN IsSubseq(Tail(a), Tail(b))
    ELSE IsSubseq(a, Tail(b))

C1_Rows ==
    \A w \in Live :
        LET me == workers[w]
        IN  /\ Len(me.appended) <= Len(me.paths)
            /\ \A k \in 1..Len(me.appended) :
                  /\ me.appended[k].Nombre_PDF = basename(me.paths[k])
                  /\ IsErrorRow(me.appended[k]) <=> Raises(me.paths[k])
            /\ (me.pc = "final" /\ ~me.broke) => Len(me.appended) = Len(me.paths)
            /\ IsSubseq(me.appended, registros)

C1_Step ==
    /\ Len(registros') \in {Len(registros), Len(registros) + 1}
    /\ SubSeq(registros', 1, Len(registros)) = registros

C1_OneRowPerFileInOrder == [](C1_Rows) /\ [][C1_Step]_vars

\* A run over [A, B, C] with B failing has left the loop uncancelled, after
\* another run had put its row in the list.
C1_Witness ==
    \E w \in Live :
        /\ workers[w].pc = "final"
        /\ ~workers[w].broke
        /\ Len(workers[w].paths) = 3
        /\ Raises(workers[w].paths[2])
        /\ Len(registros) > 3
        /\ SubSeq(registros, Len(registros) - 2, Len(registros)) = workers[w].appended

Processed(me) == IF me.pc = "append" THEN me.i ELSE me.i - 1

C3_ErrorRowAndGoOn ==
    \A w \in Live :
        LET me == workers[w]
        IN  /\ \A k \in 1..Len(me.appended) :
                  Raises(me.paths[k]) =>
                      /\ me.appended[k].cols["observ"] =
                             <<"ERROR: ", extract_conva_header(me.paths[k]).error>>
                      /\ \A f \in Fields \ {"observ"} : me.appended[k].cols[f] = None
            /\ me.errores = Cardinality({k \in 1..Processed(me) : Raises(me.paths[k])})
            /\ me.ok + me.errores = Processed(me)
            /\ me.pc = "final" => (me.broke \/ Len(me.appended) = Len(me.paths))

\* A run whose second file raised went on to the end of a longer batch.
C3_Witness ==
    \E w \in Live :
        /\ workers[w].pc = "final"
        /\ ~workers[w].broke
        /\ Len(workers[w].paths) >= 4
        /\ Raises(workers[w].paths[2])
        /\ IsErrorRow(workers[w].appended[2])
        /\ workers[w].errores >= 1
        /\ Len(workers[w].appended) = Len(workers[w].paths)

(***************************************************************************)
(* C4.  The page scanner reads page k+1 only if k < 4 and fewer than 7 of  *)
(* the 9 fields have been found in pages 1..k; in particular, once page 1  *)
(* has given all the header fields no further page is read.                *)
(***************************************************************************)
NumFound(hdr) == Cardinality({f \in Fields : Truthy(hdr[f])})

C4_ReadsOnlyWhileNeeded ==
    [][ /\ sI' /= sI => (sI' = sI + 1 /\ sI < 4 /\ NumFound(sHdr) < 7)
        /\ (sI = 1 /\ \A f \in Fields : Truthy(sHdr[f])) => sI' = 1 ]_vars

\* A document of several pages whose first page held every field: the scan
\* is over and has read one page.
C4_Witness ==
    /\ sPc = "done"
    /\ sLen > 1
    /\ sI = 1
    /\ \A f \in Fields : Truthy(sHdr[f])

(***************************************************************************)
(* C5.  A field is attempted on a page only while it is unresolved (None), *)
(* and once it is resolved no later page re-attempts or changes it, even   *)
(* when that page holds a different match: first found wins across pages.  *)
(***************************************************************************)
C5_FirstFoundWins ==
    [][ /\ \A f \in Fields : sHdr[f] /= None => sHdr'[f] = sHdr[f]
        /\ sI' /= sI => \A f \in sTried' : sHdr[f] = None ]_vars

\* A later page holds another match for a field resolved before, and the
\* field kept its first value.
C5_Witness ==
    /\ sI >= 2
    /\ ~sPage.blank
    /\ \E f \in Fields :
          /\ sHdr[f] = Val(1)
          /\ sPage.m[f] = Val(sI)
          /\ f \notin sTried

(***************************************************************************)
(* C6.  A document that cannot be opened, or that opens but gives no       *)
(* usable text on any scanned page, is recorded as an error row and        *)
(* counted as an error.                                                    *)
(***************************************************************************)
Unreadable(doc) ==
    \/ ~doc.opens
    \/ \A p \in 1..PageLimit(Len(doc.pages)) : doc.pages[p].blank

C6_UnreadableIsErrorRow ==
    \A w \in Live :
        LET me == workers[w]
        IN  /\ \A k \in 1..Len(me.appended) :
                  Unreadable(Document(me.paths[k])) => IsErrorRow(me.appended[k])
            /\ me.errores >=
                  Cardinality({k \in 1..Len(me.appended) : Unreadable(Document(me.paths[k]))})

(***************************************************************************)
(* C7.  Every append, clear and read-for-export of the result list is one  *)
(* critical section of the lock, and neither export_excel nor limpiar      *)
(* reads or clears the list while a batch is in flight.                    *)
(***************************************************************************)
InFlight == \E w \in Threads : workers[w].pc \in {"loop", "append"}

C7_NoExportOrClearInFlight == [][(LimpiarClear \/ ExportRead) => ~InFlight]_vars

(***************************************************************************)
(* C8.  Export requested with an empty result list writes no file, sets    *)
(* the status to the 'no data' warning and leaves the list as it is; a     *)
(* file is written only from a list of at least one row.                   *)
(***************************************************************************)
C8_EmptyExportWritesNothing ==
    [][ /\ (ExportRead /\ registros = <<>>) =>
              /\ status' = "No hay datos para exportar."
              /\ excel' = excel
              /\ handler' = handler
              /\ registros' = registros
        /\ excel' /= excel => (Len(handler.df) >= 1 /\ excel'.rows >= 1) ]_vars

\* Export was asked of an empty list: the warning shows and there is no file.
C8_Witness ==
    /\ status = "No hay datos para exportar."
    /\ registros = <<>>
    /\ ~excel.exists

(***************************************************************************)
(* C9.  For every field and every text the extractor returns the           *)
(* whitespace-normalized capture of the first pattern, in listed order,    *)
(* that yields a non-empty match; the returned value is never the empty    *)
(* string, and it is None when no pattern yields one.                      *)
(***************************************************************************)
NonEmptyHits ==
    {k \in 1..Len(xPats) :
        /\ Search(xPats[k], xText) /= None
        /\ clean_spaces(Search(xPats[k], xText)) /= EmptyStr}

C9_FirstNonEmptyMatchWins ==
    xPc = "done" =>
        /\ xRes /= EmptyStr
        /\ IF NonEmptyHits = {}
           THEN xRes = None
           ELSE LET k == CHOOSE j \in NonEmptyHits : \A h \in NonEmptyHits : j <= h
                IN  xRes = clean_spaces(Search(xPats[k], xText))

(***************************************************************************)
(* C10.  Name cleanup truncates the raw name at the leftmost position,     *)
(* compared case-insensitively, of any of the sub-labels ' ID Estudiante:',*)
(* ' Código:', ' CODIGO:', so the cleaned name contains none of them.      *)
(***************************************************************************)
SubLabels == { <<SP, "ie">>, <<SP, "có">>, <<SP, "co">> }

LabelPositions(s) == UNION {Occurrences(lower(s), l) : l \in SubLabels}

C10_TruncatesAtLeftmostSubLabel ==
    (nPc = "done" /\ Truthy(nRaw)) =>
        /\ LabelPositions(nRes) = {}
        /\ IF LabelPositions(nRaw) = {}
           THEN nRes = clean_spaces(nRaw)
           ELSE LET p == CHOOSE q \in LabelPositions(nRaw) :
                             \A r \in LabelPositions(nRaw) : q <= r
                IN  nRes = clean_spaces(SubSeq(nRaw, 1, p - 1))

(***************************************************************************)
(* C11.  The worker reads the cancellation flag only before starting a     *)
(* file: once the flag is set during a run the worker appends at most one  *)
(* further row, that of the file in flight, starts no new file, and every  *)
(* row appended before the flag was set stays in the result list.          *)
(***************************************************************************)
C11_AtMostOneMoreRow ==
    \A w \in Live :
        LET me == workers[w]
        IN  me.cancelAt >= 0 =>
                /\ Len(me.appended) <= me.cancelAt + 1
                /\ me.i <= me.cancelAt + 2
                /\ IsSubseq(SubSeq(me.appended, 1, me.cancelAt), registros)

(***************************************************************************)
(* C12.  At every moment at most one worker thread exists, and             *)
(* pick_pdfs_with_tk followed by start_processing starts a worker only     *)
(* when no run is running, whatever the interleaving of the UI handlers.   *)
(***************************************************************************)
C12_SingleWorker ==
    /\ [](Cardinality(Live) <= 1)
    /\ [][start_processing => (Live = {} /\ ~running_flag)]_vars

(***************************************************************************)
(* C13.  At every point of the page scan, found equals the number of the   *)
(* nine fields whose value is no longer None, so a field stops being       *)
(* attempted exactly when it has been counted; found never exceeds 9 and   *)
(* no field is counted twice.                                              *)
(***************************************************************************)
NotNone(hdr) == {f \in Fields : hdr[f] /= None}

C13_FoundCountsResolved ==
    /\ sFound = Cardinality(NotNone(sHdr))
    /\ sFound <= 9

(***************************************************************************)
(* C14.  Every started batch run eventually sends a terminal message,      *)
(* 'done' or 'error', as its thread ends, cancelled or not; and the        *)
(* handling of a terminal message leaves running_flag false, the cancel    *)
(* button disabled and the pick, export, open and clear buttons enabled.   *)
(***************************************************************************)
Terminal == {"done", "error"}

C14_EndsWithTerminal(w) ==
    (workers[w].pc /= "ended" /\ workers'[w].pc = "ended") =>
        /\ pubsub' = Append(pubsub, pubsub'[Len(pubsub')])
        /\ pubsub'[Len(pubsub')].type \in Terminal

C14_HandledTerminal ==
    (on_pubsub_message /\ Head(pubsub).type \in Terminal) =>
        /\ ~running_flag'
        /\ btn_cancel_disabled'
        /\ enabled'

====
